---- MODULE Spec2Model ----
(***************************************************************************)
(* The indexed record engine of bun-db (class Database of src/index.ts):   *)
(* the record sequence, the secondary indexes, the query evaluator and the *)
(* debounced auto-save; and the module-level store of the same file        *)
(* (createDB, add, find, modify, remove).                                  *)
(*                                                                         *)
(* JavaScript values are tagged tuples:                                    *)
(*   <<"undef">>  <<"null">>  <<"bool", b>>  <<"num", n>>                  *)
(*   <<"str", s>>   s a sequence of character codes                        *)
(*   <<"arr", s>>   s a sequence of values                                 *)
(*   <<"ops", s>>   an object literal, s its entries <<key, value>> in     *)
(*                  Object.entries order                                   *)
(* A record is a function from the field names it defines to values.  A    *)
(* query is the sequence of its entries <<field, condition>>.              *)
(***************************************************************************)
EXTENDS Integers, Sequences, FiniteSets, TLC

VARIABLES
    data,           \* this.data: the record sequence
    indexes,        \* this.indexes: field -> (value -> sequence of positions)
    options,        \* this.options: autoSave and validation
    saveTimer,      \* this.saveTimer: last timer handle, 0 = undefined
    timers,         \* the handles of the timers that are armed
    pendingWrites,  \* this.pendingWrites
    writes,         \* the write() calls in flight, in start order
    disk,           \* the content of the file at this.path
    errors,         \* the number of console.error reports
    uuids,          \* the number of ids crypto.randomUUID has produced
    ready,          \* the store handle has been handed to the caller
    last,           \* the last call or callback: what it was and what it returned
    calls,          \* the number of mutating calls made so far
    persisted,      \* the record sequence of the last write that completed
    dbInstance,     \* the module-level dbInstance: null or its data
    creating        \* createDB: "idle", "reading", "writing" or "done"

vars == <<data, indexes, options, saveTimer, timers, pendingWrites, writes,
          disk, errors, uuids, ready, last, calls, persisted, dbInstance,
          creating>>

\* what belongs to the module-level store alone
moduleVars == <<dbInstance, creating>>

(***************************** bounds **************************************)
MaxRecords == 3     \* StoreSpec: insert is not called on a store of this many records
MaxUuids == 2       \* StoreSpec: insert is not called once this many ids were drawn
MaxCalls == 3       \* Spec: the caller makes at most this many mutating calls

(***************************** values **************************************)
Undef == <<"undef">>
Null == <<"null">>
Bool(b) == <<"bool", b>>
Num(n) == <<"num", n>>
Str(s) == <<"str", s>>
Arr(s) == <<"arr", s>>
Ops(s) == <<"ops", s>>

\* crypto.randomUUID(): the n-th identifier produced, a 36-character string
\* that is written here as one character code (1000 + n) no other string holds
randomUUID(n) == Str(<<1000 + n>>)

\* typeof v
TypeOf(v) ==
    CASE v[1] = "undef" -> "undefined"
      [] v[1] = "bool" -> "boolean"
      [] v[1] = "num" -> "number"
      [] v[1] = "str" -> "string"
      [] OTHER -> "object"

\* item[key]: undefined for a field the record lacks
Get(item, key) == IF key \in DOMAIN item THEN item[key] ELSE Undef

\* a === b on the values of the model (arrays and objects are compared by
\* identity in the source and are never operands of === here)
StrictEq(a, b) == a = b

\* !!v
Truthy(v) ==
    CASE v[1] = "undef" -> FALSE
      [] v[1] = "null" -> FALSE
      [] v[1] = "bool" -> v[2]
      [] v[1] = "num" -> v[2] # 0
      [] v[1] = "str" -> v[2] # <<>>
      [] OTHER -> TRUE

\* the number a string of decimal digits (codes 48..57) denotes
RECURSIVE Decimal(_)
Decimal(s) ==
    IF s = <<>> THEN 0
    ELSE 10 * Decimal(SubSeq(s, 1, Len(s) - 1)) + (s[Len(s)] - 48)

\* the decimal digits of a natural number
RECURSIVE Digits(_)
Digits(n) == IF n < 10 THEN <<48 + n>> ELSE Digits(n \div 10) \o <<48 + (n % 10)>>

\* String(v) as characters, for a value that is no array
StringOfScalar(v) ==
    CASE v[1] = "undef" -> <<117, 110, 100, 101, 102, 105, 110, 101, 100>>
      [] v[1] = "null" -> <<110, 117, 108, 108>>
      [] v[1] = "bool" -> IF v[2] THEN <<116, 114, 117, 101>>
                          ELSE <<102, 97, 108, 115, 101>>
      [] v[1] = "num" -> IF v[2] < 0 THEN <<45>> \o Digits(-v[2]) ELSE Digits(v[2])
      [] v[1] = "str" -> v[2]
      [] OTHER -> <<91, 111, 98, 106, 101, 99, 116, 32, 79, 98, 106, 101, 99, 116, 93>>

\* elems.join(","): null and undefined elements give nothing (the arrays of
\* the model hold no arrays)
RECURSIVE Join(_)
Join(elems) ==
    IF elems = <<>> THEN <<>>
    ELSE (IF elems[1][1] \in {"undef", "null"} THEN <<>>
          ELSE StringOfScalar(elems[1]))
         \o (IF Len(elems) = 1 THEN <<>> ELSE <<44>> \o Join(Tail(elems)))

\* String(v) as characters: an array is joined, an object gives
\* "[object Object]"
String(v) == IF v[1] = "arr" THEN Join(v[2]) ELSE StringOfScalar(v)

\* ToPrimitive(v): an array or object becomes its string
ToPrimitive(v) == IF v[1] \in {"arr", "ops"} THEN Str(String(v)) ELSE v

IsNaN(x) == x = <<"nan">>
\* ToNumber(v) of a primitive: <<"n", k>> or <<"nan">>; a string is a number
\* when it is empty or holds decimal digits only
ToNumber(v) ==
    CASE v[1] = "undef" -> <<"nan">>
      [] v[1] = "null" -> <<"n", 0>>
      [] v[1] = "bool" -> <<"n", IF v[2] THEN 1 ELSE 0>>
      [] v[1] = "num" -> <<"n", v[2]>>
      [] v[1] = "str" ->
            IF \A i \in 1..Len(v[2]) : v[2][i] \in 48..57
            THEN <<"n", Decimal(v[2])>> ELSE <<"nan">>

\* s < t by code units
RECURSIVE StrLess(_, _)
StrLess(s, t) ==
    IF t = <<>> THEN FALSE
    ELSE IF s = <<>> THEN TRUE
    ELSE IF s[1] # t[1] THEN s[1] < t[1]
    ELSE StrLess(Tail(s), Tail(t))

\* x < y and x <= y on numbers: a comparison with NaN is false
NumLess(x, y) == ~IsNaN(x) /\ ~IsNaN(y) /\ x[2] < y[2]
NumLessEq(x, y) == ~IsNaN(x) /\ ~IsNaN(y) /\ x[2] <= y[2]

\* pa < pb and pa <= pb on primitives: two strings are compared by code
\* units, anything else as numbers
PrimLess(pa, pb) ==
    IF pa[1] = "str" /\ pb[1] = "str" THEN StrLess(pa[2], pb[2])
    ELSE NumLess(ToNumber(pa), ToNumber(pb))
PrimLessEq(pa, pb) ==
    IF pa[1] = "str" /\ pb[1] = "str" THEN ~StrLess(pb[2], pa[2])
    ELSE NumLessEq(ToNumber(pa), ToNumber(pb))

\* a < b
JsLess(a, b) == PrimLess(ToPrimitive(a), ToPrimitive(b))

\* a <= b
JsLessEq(a, b) == PrimLessEq(ToPrimitive(a), ToPrimitive(b))

\* s.startsWith(p), s.endsWith(p), s.includes(p) on character sequences
StartsWith(s, p) == Len(p) <= Len(s) /\ SubSeq(s, 1, Len(p)) = p
EndsWith(s, p) == Len(p) <= Len(s) /\ SubSeq(s, Len(s) - Len(p) + 1, Len(s)) = p
Includes(s, p) ==
    \E i \in 0..(Len(s) - Len(p)) : SubSeq(s, i + 1, i + Len(p)) = p

\* array.includes(v)
ArrayIncludes(arr, v) == \E i \in 1..Len(arr[2]) : StrictEq(arr[2][i], v)

\* Object.entries(condition): an operator object gives its entries, an
\* array its indices as keys
Entries(cond) ==
    IF cond[1] = "ops" THEN cond[2]
    ELSE IF cond[1] = "arr"
         THEN [i \in 1..Len(cond[2]) |-> <<ToString(i - 1), cond[2][i]>>]
         ELSE <<>>

(************************** query evaluator ********************************)
\* results of an evaluation: "true", "false", or "throw" (Unsupported operator)
FromBool(b) == IF b THEN "true" ELSE "false"

\* the switch of matchesQuery on one operator
EvalOperator(itemValue, operator, value) ==
    CASE operator = "$eq" -> FromBool(StrictEq(itemValue, value))
      [] operator = "$ne" -> FromBool(~StrictEq(itemValue, value))
      [] operator = "$gt" -> FromBool(JsLess(value, itemValue))
      [] operator = "$gte" -> FromBool(JsLessEq(value, itemValue))
      [] operator = "$lt" -> FromBool(JsLess(itemValue, value))
      [] operator = "$lte" -> FromBool(JsLessEq(itemValue, value))
      [] operator = "$in" -> FromBool(ArrayIncludes(value, itemValue))
      [] operator = "$nin" -> FromBool(~ArrayIncludes(value, itemValue))
      [] operator = "$contains" ->
            FromBool(TypeOf(itemValue) = "string" /\ Includes(itemValue[2], String(value)))
      [] operator = "$startsWith" ->
            FromBool(TypeOf(itemValue) = "string" /\ StartsWith(itemValue[2], String(value)))
      [] operator = "$endsWith" ->
            FromBool(TypeOf(itemValue) = "string" /\ EndsWith(itemValue[2], String(value)))
      [] OTHER -> "throw"

\* Object.entries(condition).every(...) from entry i on: stops at the first
\* entry that is false or throws
RECURSIVE EveryOperator(_, _, _)
\* after entry i gave r
EveryOperatorFrom(r, itemValue, ents, i) ==
    IF r = "true" THEN EveryOperator(itemValue, ents, i + 1) ELSE r

EveryOperator(itemValue, ents, i) ==
    IF i > Len(ents) THEN "true"
    ELSE EveryOperatorFrom(EvalOperator(itemValue, ents[i][1], ents[i][2]),
                           itemValue, ents, i)

\* the callback of matchesQuery for one entry of the query
MatchesCondition(item, key, condition) ==
    LET itemValue == Get(item, key)
    IN  IF TypeOf(condition) # "object" \/ condition = Null
        THEN FromBool(StrictEq(itemValue, condition))
        ELSE EveryOperator(itemValue, Entries(condition), 1)

\* Object.entries(query).every(...) from entry i on
RECURSIVE EveryCondition(_, _, _)
\* after entry i gave r
EveryConditionFrom(r, item, query, i) ==
    IF r = "true" THEN EveryCondition(item, query, i + 1) ELSE r

EveryCondition(item, query, i) ==
    IF i > Len(query) THEN "true"
    ELSE EveryConditionFrom(MatchesCondition(item, query[i][1], query[i][2]),
                            item, query, i)

matchesQuery(item, query) == EveryCondition(item, query, 1)

(***************************** persistence *********************************)
NoFile == <<"nofile">>
EmptyFile == <<"empty">>

\* JSON.stringify(this.data, null, space): the array of the records, a field
\* whose value is undefined left out (the text is kept as the array it denotes)
stringify(d) ==
    <<"json", [i \in 1..Len(d) |->
                  [k \in {f \in DOMAIN d[i] : d[i][f] # Undef} |-> d[i][k]]]>>

\* JSON.parse(text): the array the text denotes
parse(text) == text[2]

\* loadSync that finds no file, whatever the path holds
loadSync_alwaysEmpty(content) == <<>>

\* loadSync(): the parsed content, [] for a missing or empty file
loadSync(content) ==
    IF content \in {NoFile, EmptyFile} THEN <<>> ELSE parse(content)

\* setTimeout's result: a handle no armed timer and no kept handle has
NewHandle(used) == CHOOSE h \in 1..(Cardinality(used) + 1) : h \notin used

\* the scheduler part of the state: [saveTimer, timers, pendingWrites, writes]
Sched == [saveTimer |-> saveTimer, timers |-> timers,
          pendingWrites |-> pendingWrites, writes |-> writes]

\* queueSave without its clearTimeout: the timer armed before stays armed
queueSave_keepsOldTimer(s, opts) ==
    IF ~opts.autoSave THEN s
    ELSE LET h == NewHandle(s.timers \cup {s.saveTimer})
         IN  [s EXCEPT !.pendingWrites = TRUE,
                       !.timers = s.timers \cup {h},
                       !.saveTimer = h]

\* queueSave that does nothing while a write is in flight
queueSave_absorbedInFlight(s, opts) ==
    IF ~opts.autoSave \/ s.writes # <<>> THEN s
    ELSE LET h == NewHandle(s.timers \cup {s.saveTimer})
         IN  [s EXCEPT !.pendingWrites = TRUE,
                       !.timers = (s.timers \ {s.saveTimer}) \cup {h},
                       !.saveTimer = h]

\* queueSave without its autoSave test
queueSave_always(s, opts) ==
    LET h == NewHandle(s.timers \cup {s.saveTimer})
    IN  [s EXCEPT !.pendingWrites = TRUE,
                  !.timers = (s.timers \ {s.saveTimer}) \cup {h},
                  !.saveTimer = h]

\* queueSave(): nothing without autoSave; else sets the flag, clears the
\* timer of the kept handle and arms a new one
queueSave(s, opts) ==
    IF ~opts.autoSave THEN s
    ELSE LET h == NewHandle(s.timers \cup {s.saveTimer})
         IN  [s EXCEPT !.pendingWrites = TRUE,
                       !.timers = (s.timers \ {s.saveTimer}) \cup {h},
                       !.saveTimer = h]

\* a write() call in flight: the text it writes, who started it, and the
\* record sequence the text was made from
Write(d, by) == [text |-> stringify(d), by |-> by, snap |-> d]

\* save() up to its await: clears the timer of the kept handle, clears the
\* flag and starts a write of the serialized records
save(s, d, by) ==
    [s EXCEPT !.timers = s.timers \ {s.saveTimer},
              !.pendingWrites = FALSE,
              !.writes = Append(s.writes, Write(d, by))]

SetSched(s) ==
    /\ saveTimer' = s.saveTimer
    /\ timers' = s.timers
    /\ pendingWrites' = s.pendingWrites
    /\ writes' = s.writes

(***************************** insert **************************************)
\* this.options.validation(record): "acceptAll" is () => true,
\* "nameAndAge" is (record) => !!record.name && record.age > 0
Validation(name, record) ==
    CASE name = "acceptAll" -> TRUE
      [] name = "nameAndAge" ->
            Truthy(Get(record, "name")) /\ JsLess(Num(0), Get(record, "age"))

\* { ...record, id: record.id ?? crypto.randomUUID() }
NewRecord(record, uuid) ==
    [k \in DOMAIN record \cup {"id"} |->
        IF k = "id"
        THEN IF Get(record, "id") \in {Undef, Null} THEN uuid ELSE record["id"]
        ELSE record[k]]

\* Set.add(i) on a bucket kept in insertion order
SetAdd(bucket, i) ==
    IF \E j \in 1..Len(bucket) : bucket[j] = i THEN bucket ELSE Append(bucket, i)

\* Set.delete(i)
SetDelete(bucket, i) == SelectSeq(bucket, LAMBDA j : j # i)

\* if (!indexMap.has(value)) indexMap.set(value, new Set()); indexMap.get(value).add(i)
IndexAdd(indexMap, value, i) ==
    IF value \in DOMAIN indexMap
    THEN [indexMap EXCEPT ![value] = SetAdd(@, i)]
    ELSE indexMap @@ (value :> <<i>>)

\* the forEach of insert over this.indexes
IndexesAfterInsert(idx, newRecord, index) ==
    [key \in DOMAIN idx |->
        LET value == Get(newRecord, key)
        IN  IF value # Undef THEN IndexAdd(idx[key], value, index) ELSE idx[key]]

(****************************** find ***************************************)
\* this.data.filter(item => this.matchesQuery(item, query))
Scan(d, query) ==
    IF \E i \in 1..Len(d) : matchesQuery(d[i], query) = "throw"
    THEN [status |-> "throw", recs |-> <<>>]
    ELSE [status |-> "ok",
          recs |-> SelectSeq(d, LAMBDA item : matchesQuery(item, query) = "true")]

\* the entries of the query whose value is not typeof "object"
SimpleQuery(query) == SelectSeq(query, LAMBDA e : TypeOf(e[2]) # "object")

\* find took the index path
UsesIndex(idx, query) ==
    LET simpleQuery == SimpleQuery(query)
    IN  /\ Len(simpleQuery) = 1
        /\ simpleQuery[1][1] \in DOMAIN idx
        /\ simpleQuery[1][2] \in DOMAIN idx[simpleQuery[1][1]]

\* Array.from(indexes).map(i => this.data[i]).filter(item => item !== undefined)
IndexLookup(d, bucket) ==
    LET inRange == SelectSeq(bucket, LAMBDA i : i + 1 \in 1..Len(d))
    IN  [j \in 1..Len(inRange) |-> d[inRange[j] + 1]]

\* find(query) with a query
find(d, idx, query) ==
    IF UsesIndex(idx, query)
    THEN LET first == SimpleQuery(query)[1]
         IN  [status |-> "ok", recs |-> IndexLookup(d, idx[first[1]][first[2]])]
    ELSE Scan(d, query)

\* the positions (from 1) in d of the objects find(query) returns: filter and
\* the index path return the stored objects themselves, in a new array
FoundAt(d, idx, query) ==
    IF UsesIndex(idx, query)
    THEN LET first == SimpleQuery(query)[1]
             bucket == idx[first[1]][first[2]]
             inRange == SelectSeq(bucket, LAMBDA i : i + 1 \in 1..Len(d))
         IN  [j \in 1..Len(inRange) |-> inRange[j] + 1]
    ELSE SelectSeq([i \in 1..Len(d) |-> i],
                   LAMBDA i : matchesQuery(d[i], query) = "true")

(***************************** update **************************************)
\* { ...item, ...changes }
Merge(item, changes) ==
    [k \in DOMAIN item \cup DOMAIN changes |->
        IF k \in DOMAIN changes THEN changes[k] ELSE item[k]]

\* the forEach of update from position i on (positions from 0): a throw of
\* matchesQuery leaves the records merged so far as they are
RECURSIVE UpdateScan(_, _, _, _, _)
UpdateScan(d, query, changes, i, indexesToUpdate) ==
    IF i >= Len(d)
    THEN [status |-> "ok", data |-> d, indexesToUpdate |-> indexesToUpdate]
    ELSE LET r == matchesQuery(d[i + 1], query)
         IN  IF r = "throw"
             THEN [status |-> "throw", data |-> d, indexesToUpdate |-> indexesToUpdate]
             ELSE IF r = "true"
             THEN UpdateScan([d EXCEPT ![i + 1] = Merge(@, changes)], query, changes,
                             i + 1, Append(indexesToUpdate, i))
             ELSE UpdateScan(d, query, changes, i + 1, indexesToUpdate)

\* the inner forEach of update for one index: old and new value are both read
\* from the merged record
RECURSIVE ReindexOne(_, _, _, _, _)
ReindexOne(indexMap, d, key, indexesToUpdate, j) ==
    IF j > Len(indexesToUpdate) THEN indexMap
    ELSE LET i == indexesToUpdate[j]
             oldValue == Get(d[i + 1], key)
             newValue == Get(d[i + 1], key)
             vacated == IF oldValue \in DOMAIN indexMap
                        THEN [indexMap EXCEPT ![oldValue] = SetDelete(@, i)]
                        ELSE indexMap
         IN  ReindexOne(IndexAdd(vacated, newValue, i), d, key, indexesToUpdate, j + 1)

IndexesAfterUpdate(idx, d, indexesToUpdate) ==
    [key \in DOMAIN idx |-> ReindexOne(idx[key], d, key, indexesToUpdate, 1)]

(***************************** delete **************************************)
\* the forEach of delete: the matching positions (from 0), or a throw
DeleteScan(d, query) ==
    IF \E i \in 1..Len(d) : matchesQuery(d[i], query) = "throw"
    THEN [status |-> "throw", indexesToDelete |-> {}]
    ELSE [status |-> "ok",
          indexesToDelete |-> {i \in 0..(Len(d) - 1) : matchesQuery(d[i + 1], query) = "true"}]

\* the positions sorted with (a, b) => a - b
RECURSIVE SortAscending(_)
SortAscending(S) ==
    IF S = {} THEN <<>>
    ELSE LET m == CHOOSE x \in S : \A y \in S : x <= y
         IN  <<m>> \o SortAscending(S \ {m})

\* Array.from(indexesToDelete).sort((a, b) => b - a)
RECURSIVE SortDescending(_)
SortDescending(S) ==
    IF S = {} THEN <<>>
    ELSE LET m == CHOOSE x \in S : \A y \in S : y <= x
         IN  <<m>> \o SortDescending(S \ {m})

\* this.data.splice(i, 1)
Splice(d, i) == SubSeq(d, 1, i) \o SubSeq(d, i + 2, Len(d))

\* sorted.forEach(i => this.data.splice(i, 1))
RECURSIVE SpliceAll(_, _)
SpliceAll(d, sorted) ==
    IF sorted = <<>> THEN d ELSE SpliceAll(Splice(d, Head(sorted)), Tail(sorted))

(************************* the public operations ***************************)
\* what a call or callback leaves in last: the operation, "ok" or what it
\* threw, and the count it returned
Event(op, status, count) == [op |-> op, status |-> status, count |-> count]

\* insert with the validation run after the record was stored and the save
\* queued
insert_validateLate(d, idx, s, opts, record, n) ==
    LET newRecord == NewRecord(record, randomUUID(n + 1))
        drawn == Get(record, "id") \in {Undef, Null}
    IN  [status |-> IF opts.validation = "none" THEN "TypeError"
                    ELSE IF Validation(opts.validation, record) THEN "ok" ELSE "throw",
         data |-> Append(d, newRecord),
         indexes |-> IndexesAfterInsert(idx, newRecord, Len(d)),
         sched |-> queueSave(s, opts),
         uuids |-> IF drawn THEN n + 1 ELSE n,
         recs |-> <<newRecord>>]

\* insert(record) on records d, indexes idx, scheduler s, with n ids drawn so
\* far: the outcome and the state it leaves
insert(d, idx, s, opts, record, n) ==
    IF opts.validation = "none"
    THEN [status |-> "TypeError", data |-> d, indexes |-> idx, sched |-> s,
          uuids |-> n, recs |-> <<>>]
    ELSE IF ~Validation(opts.validation, record)
    THEN [status |-> "throw", data |-> d, indexes |-> idx, sched |-> s,
          uuids |-> n, recs |-> <<>>]
    ELSE LET drawn == Get(record, "id") \in {Undef, Null}
             newRecord == NewRecord(record, randomUUID(n + 1))
             index == Len(d)
         IN  [status |-> "ok",
              data |-> Append(d, newRecord),
              indexes |-> IndexesAfterInsert(idx, newRecord, index),
              sched |-> queueSave(s, opts),
              uuids |-> IF drawn THEN n + 1 ELSE n,
              recs |-> <<newRecord>>]

\* update with the save queued before the scan, whatever the scan does
update_queueSaveFirst(d, idx, s, opts, query, changes) ==
    LET scan == UpdateScan(d, query, changes, 0, <<>>)
    IN  [status |-> scan.status, data |-> scan.data,
         indexes |-> IF scan.status = "ok"
                     THEN IndexesAfterUpdate(idx, scan.data, scan.indexesToUpdate)
                     ELSE idx,
         sched |-> queueSave(s, opts),
         count |-> IF scan.status = "ok" THEN Len(scan.indexesToUpdate) ELSE 0]

\* update(query, changes)
update(d, idx, s, opts, query, changes) ==
    LET scan == UpdateScan(d, query, changes, 0, <<>>)
        modifiedCount == Len(scan.indexesToUpdate)
    IN  IF scan.status = "throw"
        THEN [status |-> "throw", data |-> scan.data, indexes |-> idx, sched |-> s,
              count |-> 0]
        ELSE IF modifiedCount > 0
        THEN [status |-> "ok", data |-> scan.data,
              indexes |-> IndexesAfterUpdate(idx, scan.data, scan.indexesToUpdate),
              sched |-> queueSave(s, opts), count |-> modifiedCount]
        ELSE [status |-> "ok", data |-> scan.data, indexes |-> idx, sched |-> s,
              count |-> 0]

\* delete that queues the save whether or not it removed a record
delete_queueSaveAlways(d, idx, s, opts, query) ==
    LET scan == DeleteScan(d, query)
        sorted == SortDescending(scan.indexesToDelete)
    IN  IF scan.status = "throw"
        THEN [status |-> "throw", data |-> d, indexes |-> idx, sched |-> s, count |-> 0]
        ELSE [status |-> "ok", data |-> SpliceAll(d, sorted),
              indexes |-> <<>>,
              sched |-> queueSave(s, opts),
              count |-> Len(sorted)]

\* delete(query)
delete(d, idx, s, opts, query) ==
    LET scan == DeleteScan(d, query)
        sorted == SortDescending(scan.indexesToDelete)
    IN  IF scan.status = "throw"
        THEN [status |-> "throw", data |-> d, indexes |-> idx, sched |-> s, count |-> 0]
        ELSE [status |-> "ok", data |-> SpliceAll(d, sorted),
              indexes |-> <<>>,
              sched |-> IF Len(sorted) > 0 THEN queueSave(s, opts) ELSE s,
              count |-> Len(sorted)]

(******************************* inputs ************************************)
NameA == Str(<<97>>)
NameAB == Str(<<97, 98>>)
IdX == Str(<<120>>)

\* a record without an id, one with an id, one the validation rejects
RecordInputs ==
    { [name |-> NameA, age |-> Num(1)],
      [id |-> IdX, name |-> NameAB, age |-> Num(2)],
      [name |-> Str(<<>>), age |-> Num(1)] }

ChangeInputs ==
    { [age |-> Num(2)],
      [id |-> IdX],
      [name |-> Arr(<<NameA>>)] }

BadQuery == << <<"age", Ops(<< <<"$invalid", Num(1)>> >>)>> >>
GuardedBadQuery ==
    << <<"age", Num(2)>>, <<"name", Ops(<< <<"$invalid", Num(1)>> >>)>> >>

(************************ the module-level store ***************************)
\* dbInstance = { path, data }
DbInstance(d) == <<"db", d>>

\* the module's matchesQuery(obj, query): obj[key] === value for every entry
dbMatchesQuery(obj, query) ==
    \A i \in 1..Len(query) : StrictEq(Get(obj, query[i][1]), query[i][2])

\* the module's save(): the write it starts
dbSave(inst, by) == Write(inst[2], by)

\* add(record) up to its await: the outcome, the instance and the writes started
add(inst, record) ==
    IF inst = Null
    THEN [status |-> "NotInitialized", inst |-> inst, started |-> <<>>, count |-> 0]
    ELSE LET pushed == DbInstance(Append(inst[2], record))
         IN  [status |-> "ok", inst |-> pushed,
              started |-> <<dbSave(pushed, "add")>>, count |-> 0]

\* the module's find(query)
dbFind(inst, query) ==
    IF inst = Null
    THEN [status |-> "NotInitialized", inst |-> inst, started |-> <<>>, count |-> 0]
    ELSE [status |-> "ok", inst |-> inst, started |-> <<>>,
          count |-> Len(SelectSeq(inst[2], LAMBDA item : dbMatchesQuery(item, query)))]

\* modify(query, changes) up to its await
modify(inst, query, changes) ==
    IF inst = Null
    THEN [status |-> "NotInitialized", inst |-> inst, started |-> <<>>, count |-> 0]
    ELSE LET d == inst[2]
             mapped == DbInstance([i \in 1..Len(d) |->
                                      IF dbMatchesQuery(d[i], query)
                                      THEN Merge(d[i], changes) ELSE d[i]])
             modifiedCount ==
                 Cardinality({i \in 1..Len(d) : dbMatchesQuery(d[i], query)})
         IN  IF modifiedCount = 0
             THEN [status |-> "NoRecordsMatched", inst |-> mapped,
                   started |-> <<>>, count |-> 0]
             ELSE [status |-> "ok", inst |-> mapped,
                   started |-> <<dbSave(mapped, "modify")>>, count |-> modifiedCount]

\* remove(query) up to its await
remove(inst, query) ==
    IF inst = Null
    THEN [status |-> "NotInitialized", inst |-> inst, started |-> <<>>, count |-> 0]
    ELSE LET d == inst[2]
             kept == DbInstance(SelectSeq(d, LAMBDA item : ~dbMatchesQuery(item, query)))
         IN  [status |-> "ok", inst |-> kept,
              started |-> <<dbSave(kept, "remove")>>,
              count |-> Len(d) - Len(kept[2])]

\* the records and queries the module-level store is called with
DbRecordInputs == { [name |-> NameA, age |-> Num(1)], [name |-> NameAB, age |-> Num(2)] }
DbQueryInputs == { <<>>, << <<"age", Num(2)>> >> }

(******************************* inputs ************************************)
\* what the caller assigns to a record it was handed: record.age = 2
AssignInputs == { [age |-> Num(2)] }

\* the inputs of IndexedSpec: a query of one literal, and one of a literal
\* with an operator constraint, { age: 2, name: { $ne: "ab" } }
MixedQuery ==
    << <<"age", Num(2)>>, <<"name", Ops(<< <<"$ne", NameAB>> >>)>> >>

IndexedQueryInputs == { <<>>, << <<"age", Num(2)>> >>, << <<"age", Num(1)>> >>, MixedQuery }

IndexedChangeInputs == { [age |-> Num(2)], [age |-> Num(1)], [name |-> NameAB] }

\* the inputs of EvalSpec: records whose age is absent, null, a string of
\* digits, another string, a boolean, a number
EvalRecordInputs ==
    { [name |-> NameA],
      [name |-> NameA, age |-> Null],
      [name |-> NameA, age |-> Bool(TRUE)],
      [name |-> NameA, age |-> Str(<<53>>)],
      [name |-> NameA, age |-> NameA],
      [name |-> NameA, age |-> Num(1)] }

\* a literal, $eq and the four ordering operators, each with a number operand
EvalQueryInputs ==
    { << <<"age", Num(1)>> >>,
      << <<"age", Ops(<< <<"$eq", Num(1)>> >>)>> >>,
      << <<"age", Ops(<< <<"$gt", Num(0)>> >>)>> >>,
      << <<"age", Ops(<< <<"$gte", Num(0)>> >>)>> >>,
      << <<"age", Ops(<< <<"$lt", Num(9)>> >>)>> >>,
      << <<"age", Ops(<< <<"$lte", Num(0)>> >>)>> >> }

\* the inputs of Spec, where the scheduler runs: fewer of each
SavedChangeInputs == { [age |-> Num(2)] }

SavedQueryInputs ==
    { <<>>, << <<"age", Num(2)>> >>, BadQuery, GuardedBadQuery }

QueryInputs ==
    { <<>>,
      << <<"age", Num(2)>> >>,
      << <<"age", Ops(<< <<"$lt", Num(2)>> >>)>> >>,
      << <<"name", Arr(<<>>)>> >>,
      BadQuery,
      GuardedBadQuery }

(******************************* actions ***********************************)
Insert(record) ==
    /\ ready
    /\ \E r \in {insert(data, indexes, Sched, options, record, uuids)} :
           /\ data' = r.data
           /\ indexes' = r.indexes
           /\ SetSched(r.sched)
           /\ uuids' = r.uuids
           /\ last' = Event("insert", r.status, 0)
    /\ UNCHANGED <<options, disk, errors, ready, persisted, moduleVars>>

\* find() without a query: [...this.data]
FindAll ==
    /\ ready
    /\ last' = Event("find", "ok", Len(data))
    /\ UNCHANGED <<data, indexes, options, saveTimer, timers, pendingWrites,
                   writes, disk, errors, uuids, ready, persisted, moduleVars>>

Find(query) ==
    /\ ready
    /\ \E r \in {find(data, indexes, query)} :
           last' = Event("find", r.status, Len(r.recs))
    /\ UNCHANGED <<data, indexes, options, saveTimer, timers, pendingWrites,
                   writes, disk, errors, uuids, ready, persisted, moduleVars>>

Update(query, changes) ==
    /\ ready
    /\ \E r \in {update(data, indexes, Sched, options, query, changes)} :
           /\ data' = r.data
           /\ indexes' = r.indexes
           /\ SetSched(r.sched)
           /\ last' = Event("update", r.status, r.count)
    /\ UNCHANGED <<options, disk, errors, uuids, ready, persisted, moduleVars>>

Delete(query) ==
    /\ ready
    /\ \E r \in {delete(data, indexes, Sched, options, query)} :
           /\ data' = r.data
           /\ indexes' = r.indexes
           /\ SetSched(r.sched)
           /\ last' = Event("delete", r.status, r.count)
    /\ UNCHANGED <<options, disk, errors, uuids, ready, persisted, moduleVars>>

\* the caller assigns fields of the first record that find() returned:
\* [...this.data] is a new array of the stored objects
AssignFoundAll(changes) ==
    /\ ready
    /\ data # <<>>
    /\ data' = [data EXCEPT ![1] = Merge(@, changes)]
    /\ last' = Event("assign", "ok", Len(data))
    /\ UNCHANGED <<indexes, options, saveTimer, timers, pendingWrites, writes,
                   disk, errors, uuids, ready, persisted, moduleVars>>

\* the caller assigns fields of the first record that find(query) returned
AssignFound(query, changes) ==
    /\ ready
    /\ \E r \in {find(data, indexes, query)} :
           /\ r.status = "ok"
           /\ r.recs # <<>>
           /\ data' = [data EXCEPT ![FoundAt(data, indexes, query)[1]] =
                                       Merge(@, changes)]
           /\ last' = Event("assign", "ok", Len(r.recs))
    /\ UNCHANGED <<indexes, options, saveTimer, timers, pendingWrites, writes,
                   disk, errors, uuids, ready, persisted, moduleVars>>

\* the caller assigns fields of the record that insert(record) returned:
\* newRecord is the object that was pushed
AssignInserted(record, changes) ==
    /\ ready
    /\ \E r \in {insert(data, indexes, Sched, options, record, uuids)} :
           /\ r.status = "ok"
           /\ data' = [r.data EXCEPT ![Len(r.data)] = Merge(@, changes)]
           /\ indexes' = r.indexes
           /\ SetSched(r.sched)
           /\ uuids' = r.uuids
           /\ last' = Event("assign", "ok", 1)
    /\ UNCHANGED <<options, disk, errors, ready, persisted, moduleVars>>

\* the callback of the timer armed by queueSave
TimerFire(h) ==
    /\ h \in timers
    /\ LET fired == [Sched EXCEPT !.timers = timers \ {h}]
       IN  SetSched(IF pendingWrites THEN save(fired, data, "timer") ELSE fired)
    /\ last' = Event("timer", "ok", 0)
    /\ UNCHANGED <<data, indexes, options, disk, errors, uuids, ready,
                   persisted, moduleVars>>

\* the write in flight at position i of writes succeeds
WriteComplete(i) ==
    /\ i \in 1..Len(writes)
    /\ writes' = SubSeq(writes, 1, i - 1) \o SubSeq(writes, i + 1, Len(writes))
    /\ disk' = writes[i].text
    /\ persisted' = writes[i].snap
    /\ ready' = (ready \/ writes[i].by = "initialize")
    /\ last' = Event("written", "ok", 0)
    /\ UNCHANGED <<data, indexes, options, saveTimer, timers, pendingWrites,
                   errors, uuids, moduleVars>>

\* a failed write whose rejection nothing catches: the process ends with the
\* unhandled rejection and the store is gone
WriteFail_unhandled(i) ==
    /\ i \in 1..Len(writes)
    /\ writes' = SubSeq(writes, 1, i - 1) \o SubSeq(writes, i + 1, Len(writes))
    /\ ready' = FALSE
    /\ last' = Event("failed", "throw", 0)
    /\ UNCHANGED <<data, indexes, options, saveTimer, timers, pendingWrites,
                   disk, errors, uuids, persisted, moduleVars>>

\* the write in flight at position i fails: save() rejects, which the timer
\* callback reports with console.error and initialize passes to its caller
WriteFail(i) ==
    /\ i \in 1..Len(writes)
    /\ writes' = SubSeq(writes, 1, i - 1) \o SubSeq(writes, i + 1, Len(writes))
    /\ errors' = IF writes[i].by = "timer" THEN errors + 1 ELSE errors
    /\ last' = Event("failed", "throw", 0)
    /\ UNCHANGED <<data, indexes, options, saveTimer, timers, pendingWrites,
                   disk, uuids, ready, persisted, moduleVars>>

\* what the steps of the module-level store leave alone
DatabaseUnchanged ==
    UNCHANGED <<data, indexes, options, saveTimer, timers, pendingWrites, errors,
                uuids, ready, persisted>>

\* a call of add, find, modify or remove, given what it returned
DbCall(op, r) ==
    /\ dbInstance' = r.inst
    /\ writes' = writes \o r.started
    /\ last' = Event(op, r.status, r.count)
    /\ UNCHANGED <<disk, creating>>
    /\ DatabaseUnchanged

Add(record) == \E r \in {add(dbInstance, record)} : DbCall("add", r)
DbFind(query) == \E r \in {dbFind(dbInstance, query)} : DbCall("dbFind", r)
Modify(query, changes) ==
    \E r \in {modify(dbInstance, query, changes)} : DbCall("modify", r)
Remove(query) == \E r \in {remove(dbInstance, query)} : DbCall("remove", r)

\* createDB(filePath) is called and awaits the text of the file; it is called
\* until it has completed once
CreateDB ==
    /\ creating = "idle"
    /\ creating' = "reading"
    /\ last' = Event("createDB", "ok", 0)
    /\ UNCHANGED <<dbInstance, disk, writes>>
    /\ DatabaseUnchanged

\* createDB that sets dbInstance before it awaits the write of a new file
CreateDBRead_assignsEarly ==
    /\ creating = "reading"
    /\ IF disk = NoFile
       THEN /\ writes' = Append(writes, Write(<<>>, "createDB"))
            /\ dbInstance' = DbInstance(<<>>)
            /\ creating' = "writing"
       ELSE /\ dbInstance' = DbInstance(IF disk = EmptyFile THEN <<>> ELSE parse(disk))
            /\ creating' = "done"
            /\ UNCHANGED writes
    /\ last' = Event("read", "ok", 0)
    /\ UNCHANGED disk
    /\ DatabaseUnchanged

\* the text of the file arrives: dbInstance is set from it, or, the file
\* missing, the catch block starts the write of a new file
CreateDBRead ==
    /\ creating = "reading"
    /\ IF disk = NoFile
       THEN /\ writes' = Append(writes, Write(<<>>, "createDB"))
            /\ creating' = "writing"
            /\ UNCHANGED dbInstance
       ELSE /\ dbInstance' = DbInstance(IF disk = EmptyFile THEN <<>> ELSE parse(disk))
            /\ creating' = "done"
            /\ UNCHANGED writes
    /\ last' = Event("read", "ok", 0)
    /\ UNCHANGED disk
    /\ DatabaseUnchanged

\* a write of the module-level store completes; createDB then sets dbInstance
DbWriteComplete(i) ==
    /\ i \in 1..Len(writes)
    /\ writes' = SubSeq(writes, 1, i - 1) \o SubSeq(writes, i + 1, Len(writes))
    /\ disk' = writes[i].text
    /\ IF writes[i].by = "createDB"
       THEN dbInstance' = DbInstance(<<>>) /\ creating' = "done"
       ELSE UNCHANGED <<dbInstance, creating>>
    /\ last' = Event("written", "ok", 0)
    /\ DatabaseUnchanged

\* a write of the module-level store fails: the call that awaits it rejects
DbWriteFail(i) ==
    /\ i \in 1..Len(writes)
    /\ writes' = SubSeq(writes, 1, i - 1) \o SubSeq(writes, i + 1, Len(writes))
    /\ creating' = IF writes[i].by = "createDB" THEN "idle" ELSE creating
    /\ last' = Event("failed", "throw", 0)
    /\ UNCHANGED <<dbInstance, disk>>
    /\ DatabaseUnchanged

\* a store is created from the path again, by the constructor or by
\* initialize (which never leaves the validation out); the store before is
\* gone, with its timer and the writes it had in flight
Reopen(opts, viaInitialize) ==
    /\ viaInitialize => opts.validation # "none"
    /\ options' = opts
    /\ data' = loadSync(disk)
    /\ indexes' = <<>>
    /\ saveTimer' = 0
    /\ timers' = {}
    /\ pendingWrites' = FALSE
    /\ ready' = ~viaInitialize
    /\ writes' = IF viaInitialize THEN <<Write(data', "initialize")>> ELSE <<>>
    /\ last' = Event("open", "ok", Len(data'))
    /\ UNCHANGED <<disk, errors, uuids, persisted, moduleVars>>

(**************************** specifications *******************************)
\* the state new Database(path, opts) leaves on a path whose file, written
\* by no store yet, is missing or empty; the module-level store is not created
Constructed(opts, content) ==
    /\ options = opts
    /\ disk = content
    /\ persisted = <<>>
    /\ dbInstance = Null
    /\ creating = "idle"
    /\ data = loadSync(disk)
    /\ indexes = <<>>
    /\ saveTimer = 0
    /\ timers = {}
    /\ pendingWrites = FALSE
    /\ errors = 0
    /\ uuids = 0
    /\ calls = 0
    /\ last = Event("new", "ok", 0)

\* the options the sources construct a store with: the defaults, the
\* defaults with a validation, an options object without a validation, and
\* the test suite's options
OptionInputs ==
    { [autoSave |-> TRUE, validation |-> "acceptAll"],
      [autoSave |-> TRUE, validation |-> "nameAndAge"],
      [autoSave |-> TRUE, validation |-> "none"],
      [autoSave |-> FALSE, validation |-> "nameAndAge"] }

\* a store made by new Database(path, options), or by initialize, which
\* merges the options with the defaults and whose first save() is in flight
\* before the handle is returned
Init ==
    /\ \E opts \in OptionInputs : Constructed(opts, NoFile)
    /\ \/ /\ ready = TRUE
          /\ writes = <<>>
       \/ /\ options.validation # "none"
          /\ ready = FALSE
          /\ writes = <<Write(data, "initialize")>>

\* a mutating call, which the bound MaxCalls counts
Counted(A) == calls < MaxCalls /\ calls' = calls + 1 /\ A

\* any other step
Uncounted(A) == A /\ UNCHANGED calls

Next ==
    \/ \E record \in RecordInputs : Counted(Insert(record))
    \/ \E query \in SavedQueryInputs, changes \in SavedChangeInputs :
          Counted(Update(query, changes))
    \/ \E query \in SavedQueryInputs : Counted(Delete(query))
    \/ Uncounted(FindAll)
    \/ \E query \in SavedQueryInputs : Uncounted(Find(query))
    \/ \E h \in timers : Uncounted(TimerFire(h))
    \/ \E i \in 1..Len(writes) : Uncounted(WriteComplete(i))
    \/ \E i \in 1..Len(writes) : Uncounted(WriteFail(i))

Spec == Init /\ [][Next]_vars

\* the store with the default options and its mutating calls, where an armed
\* timer that is not cleared fires: setTimeout runs its callback once the
\* delay has passed
LiveInit ==
    /\ Constructed([autoSave |-> TRUE, validation |-> "acceptAll"], NoFile)
    /\ \/ /\ ready = TRUE
          /\ writes = <<>>
       \/ /\ ready = FALSE
          /\ writes = <<Write(data, "initialize")>>

LiveNext ==
    \/ \E record \in RecordInputs : Counted(Insert(record))
    \/ \E query \in SavedQueryInputs, changes \in SavedChangeInputs :
          Counted(Update(query, changes))
    \/ \E query \in SavedQueryInputs : Counted(Delete(query))
    \/ \E h \in timers : Uncounted(TimerFire(h))
    \/ \E i \in 1..Len(writes) : Uncounted(WriteComplete(i))
    \/ \E i \in 1..Len(writes) : Uncounted(WriteFail(i))

LiveSpec ==
    /\ LiveInit
    /\ [][LiveNext]_vars
    /\ WF_vars(\E h \in timers : Uncounted(TimerFire(h)))

\* Spec on a path whose file is missing or empty, with the store created
\* again at any time
OpenInit ==
    /\ \E opts \in OptionInputs, content \in {NoFile, EmptyFile} :
          Constructed(opts, content)
    /\ \/ /\ ready = TRUE
          /\ writes = <<>>
       \/ /\ options.validation # "none"
          /\ ready = FALSE
          /\ writes = <<Write(data, "initialize")>>

OpenNext ==
    \/ Next
    \/ \E opts \in OptionInputs, viaInitialize \in BOOLEAN :
          Uncounted(Reopen(opts, viaInitialize))

OpenSpec == OpenInit /\ [][OpenNext]_vars

\* the module-level store, on a path whose file is missing or empty
DbInit ==
    /\ \E content \in {NoFile, EmptyFile} :
          Constructed([autoSave |-> TRUE, validation |-> "acceptAll"], content)
    /\ ready = TRUE
    /\ writes = <<>>

DbNext ==
    \/ Uncounted(CreateDB)
    \/ Uncounted(CreateDBRead)
    \/ \E record \in DbRecordInputs : Counted(Add(record))
    \/ \E query \in DbQueryInputs : Uncounted(DbFind(query))
    \/ \E query \in DbQueryInputs, changes \in SavedChangeInputs :
          Counted(Modify(query, changes))
    \/ \E query \in DbQueryInputs : Counted(Remove(query))
    \/ \E i \in 1..Len(writes) : Uncounted(DbWriteComplete(i))
    \/ \E i \in 1..Len(writes) : Uncounted(DbWriteFail(i))

DbSpec == DbInit /\ [][DbNext]_vars

\* the store of the test suite: new Database(path, { autoSave: false,
\* validation }), on which no timer is ever armed and nothing is written
StoreInit ==
    /\ Constructed([autoSave |-> FALSE, validation |-> "nameAndAge"], NoFile)
    /\ ready = TRUE
    /\ writes = <<>>

StoreNext ==
    \/ \E record \in RecordInputs :
          Len(data) < MaxRecords /\ uuids < MaxUuids /\ Uncounted(Insert(record))
    \/ Uncounted(FindAll)
    \/ \E query \in QueryInputs : Uncounted(Find(query))
    \/ \E query \in QueryInputs, changes \in ChangeInputs :
          Uncounted(Update(query, changes))
    \/ \E query \in QueryInputs : Uncounted(Delete(query))
    \/ \E changes \in AssignInputs : Uncounted(AssignFoundAll(changes))
    \/ \E query \in QueryInputs, changes \in AssignInputs :
          Uncounted(AssignFound(query, changes))
    \/ \E record \in RecordInputs, changes \in AssignInputs :
          Len(data) < MaxRecords /\ uuids < MaxUuids
          /\ Uncounted(AssignInserted(record, changes))

StoreSpec == StoreInit /\ [][StoreNext]_vars

\* the store of the test suite with the field age put into this.indexes by
\* hand, (db as any).indexes.set("age", new Map()), before the first call:
\* the map that the index code of insert, find, update and delete works on,
\* and that no code of the class fills
IndexedInit ==
    /\ options = [autoSave |-> FALSE, validation |-> "nameAndAge"]
    /\ disk = NoFile
    /\ persisted = <<>>
    /\ dbInstance = Null
    /\ creating = "idle"
    /\ data = loadSync(disk)
    /\ indexes = ("age" :> <<>>)
    /\ saveTimer = 0
    /\ timers = {}
    /\ pendingWrites = FALSE
    /\ errors = 0
    /\ uuids = 0
    /\ calls = 0
    /\ last = Event("new", "ok", 0)
    /\ ready = TRUE
    /\ writes = <<>>

IndexedNext ==
    \/ \E record \in RecordInputs :
          Len(data) < MaxRecords /\ uuids < MaxUuids /\ Uncounted(Insert(record))
    \/ Uncounted(FindAll)
    \/ \E query \in IndexedQueryInputs : Uncounted(Find(query))
    \/ \E query \in IndexedQueryInputs, changes \in IndexedChangeInputs :
          Uncounted(Update(query, changes))
    \/ \E query \in IndexedQueryInputs : Uncounted(Delete(query))

IndexedSpec == IndexedInit /\ [][IndexedNext]_vars

\* a store that accepts every record, with records whose age is of any type,
\* and the queries that compare age with a number
EvalInit ==
    /\ Constructed([autoSave |-> FALSE, validation |-> "acceptAll"], NoFile)
    /\ ready = TRUE
    /\ writes = <<>>

EvalNext ==
    \/ \E record \in EvalRecordInputs :
          Len(data) < MaxRecords /\ uuids < MaxUuids /\ Uncounted(Insert(record))
    \/ Uncounted(FindAll)
    \/ \E query \in EvalQueryInputs : Uncounted(Find(query))

EvalSpec == EvalInit /\ [][EvalNext]_vars

\* StoreSpec with a caller that never stops: insert, find, update and delete
\* are each called again and again as long as they can be
BusySpec ==
    /\ StoreSpec
    /\ WF_vars(\E record \in RecordInputs :
                  Len(data) < MaxRecords /\ uuids < MaxUuids
                  /\ Uncounted(Insert(record)))
    /\ WF_vars(\E query \in QueryInputs : Uncounted(Find(query)))
    /\ WF_vars(\E query \in QueryInputs, changes \in ChangeInputs :
                  Uncounted(Update(query, changes)))
    /\ WF_vars(\E query \in QueryInputs : Uncounted(Delete(query)))

(******************************* claims ************************************)
Fields == {"id", "name", "age"}

\* the positions (from 1) of the records of d that match query
Matching(d, query) == {i \in 1..Len(d) : matchesQuery(d[i], query) = "true"}

\* the ids of the records of a sequence
Ids(recs) == {Get(recs[i], "id") : i \in 1..Len(recs)}

\* the scheduler is as it was: no timer armed or cleared, flag and writes kept
SchedUnchanged == UNCHANGED <<saveTimer, timers, pendingWrites, writes>>

\* C1: no two stored records share an id, and every stored record (each was
\* returned by an insert) has a defined id.
C1_UniqueIds ==
    /\ \A i, j \in 1..Len(data) : i # j => Get(data[i], "id") # Get(data[j], "id")
    /\ \A i \in 1..Len(data) : Get(data[i], "id") \notin {Undef, Null}

IndexesNeverRegistered == indexes = <<>>

\* C3: for every field F and literal value V, find({F: V}) returns normally
\* and returns exactly the records (by id) whose value for F equals V.
LiteralValues == {Num(1), Num(2), NameA, NameAB, IdX, Null, Undef, Arr(<<>>)}

C3_FindEqualsScan ==
    \A F \in Fields, V \in LiteralValues :
        LET r == find(data, indexes, << <<F, V>> >>)
            scan == SelectSeq(data, LAMBDA item : Get(item, F) = V)
        IN  r.status = "ok" /\ Ids(r.recs) = Ids(scan)

\* C3 for the literals that are not typeof "object" and for null
PrimitiveLiterals == LiteralValues \ {Arr(<<>>)}

FindEqualsScanOnPrimitives ==
    \A F \in Fields, V \in PrimitiveLiterals :
        LET r == find(data, indexes, << <<F, V>> >>)
            scan == SelectSeq(data, LAMBDA item : Get(item, F) = V)
        IN  r.status = "ok" /\ r.recs = scan

\* C4: an update or delete that fails on an unsupported operator leaves the
\* records, the indexes and the scheduler exactly as they were.
C4_FailedCallLeavesStore ==
    [][(last'.op \in {"update", "delete"} /\ last'.status = "throw")
         => (data' = data /\ indexes' = indexes /\ SchedUnchanged)]_vars

\* a failed update or delete on a store whose first record was visited before
\* the operator was reached, with auto-save on
C4_Witness ==
    /\ last.op \in {"update", "delete"}
    /\ last.status = "throw"
    /\ options.autoSave
    /\ Len(data) >= 2
    /\ matchesQuery(data[1], GuardedBadQuery) = "false"
    /\ matchesQuery(data[2], GuardedBadQuery) = "throw"

\* C5: a find, update or delete whose query holds an unrecognized operator
\* fails, whatever the store holds.
UnsupportedQueries == {BadQuery, GuardedBadQuery}

C5_UnsupportedOperatorFails ==
    \A query \in UnsupportedQueries :
        /\ find(data, indexes, query).status = "throw"
        /\ \A changes \in ChangeInputs :
              update(data, indexes, Sched, options, query, changes).status = "throw"
        /\ delete(data, indexes, Sched, options, query).status = "throw"

\* C6: an insert whose candidate the validation predicate rejects fails and
\* leaves the records, the indexes and the scheduler as they were.
C6_RejectedInsertLeavesStore ==
    [][\A record \in RecordInputs :
          (/\ last'.op = "insert"
           /\ options.validation # "none"
           /\ ~Validation(options.validation, record)
           /\ Insert(record))
          => (/\ last'.status = "throw"
              /\ data' = data
              /\ indexes' = indexes
              /\ SchedUnchanged)]_vars

\* a rejected insert on a store with auto-save on that holds a record
C6_Witness ==
    /\ last.op = "insert"
    /\ last.status = "throw"
    /\ options.autoSave
    /\ options.validation = "nameAndAge"
    /\ Len(data) >= 1

\* C7: update leaves the id of every stored record as it was.
C7_UpdateKeepsIds ==
    [][last'.op = "update"
         => (/\ Len(data') = Len(data)
             /\ \A i \in 1..Len(data) : Get(data'[i], "id") = Get(data[i], "id"))]_vars

\* what update(query, changes) has to leave of records d: the matching
\* records carry every field of changes and keep their other fields, the
\* others are as they were, all in the same order
Updated(d, query, changes) ==
    [i \in 1..Len(d) |->
        IF i \in Matching(d, query)
        THEN [k \in DOMAIN d[i] \cup DOMAIN changes |->
                 IF k \in DOMAIN changes THEN changes[k] ELSE d[i][k]]
        ELSE d[i]]

\* update returns the number of records that matched before the call and
\* leaves the records as Updated says
UpdateMergesMatching(query, changes) ==
    /\ last'.count = Cardinality(Matching(data, query))
    /\ data' = Updated(data, query, changes)

\* an equality find on each changed field with the value of changes returns
\* normally, and returns every updated record
FindReturnsUpdated(query, changes) ==
    \A F \in DOMAIN changes :
        LET r == find(data', indexes', << <<F, changes[F]>> >>)
        IN  /\ r.status = "ok"
            /\ \A i \in Matching(data, query) :
                  \E j \in 1..Len(r.recs) : r.recs[j] = data'[i]

\* C8: update(q, c) returns the number N of records that matched q before the
\* call, leaves exactly those carrying c and every other record, the number
\* and the order as they were, and an equality find on a changed field with
\* c's value returns all N updated records.
C8_UpdateCountAndEffect ==
    [][(last'.op = "update" /\ last'.status = "ok")
         => \A query \in QueryInputs, changes \in ChangeInputs :
               Update(query, changes)
               => (/\ UpdateMergesMatching(query, changes)
                   /\ FindReturnsUpdated(query, changes))]_vars

\* the part of C8 about update itself
UpdateCountAndMerge ==
    [][(last'.op = "update" /\ last'.status = "ok")
         => \A query \in QueryInputs, changes \in ChangeInputs :
               Update(query, changes) => UpdateMergesMatching(query, changes)]_vars

\* C9: delete(q) returning n leaves the records that did not match q, in
\* their order; n is the number of records removed, and find(q) is then empty.
C9_DeleteExact ==
    [][(last'.op = "delete" /\ last'.status = "ok")
         => \A query \in QueryInputs :
               Delete(query)
               => (/\ data' = SelectSeq(data, LAMBDA item :
                                           matchesQuery(item, query) # "true")
                   /\ last'.count = Cardinality(Matching(data, query))
                   /\ Len(data') = Len(data) - last'.count
                   /\ find(data', indexes', query) = [status |-> "ok", recs |-> <<>>])]_vars

\* a delete has removed records and left at least two
C9_Witness ==
    /\ last.op = "delete"
    /\ last.status = "ok"
    /\ last.count >= 1
    /\ Len(data) >= 2

\* C10: at most one write of the store is in flight.
C10_OneWriteInFlight == Len(writes) <= 1

\* a step in which insert, update or delete changed the records
Mutated ==
    /\ last'.op \in {"insert", "update", "delete"}
    /\ last'.status = "ok"
    /\ last'.op = "insert" \/ last'.count > 0

\* the step armed a timer that was not armed before, the only one armed now
ArmsNewTimer ==
    /\ timers' = {saveTimer'}
    /\ saveTimer' \notin timers
    /\ pendingWrites'

\* C11: with auto-save on at most one timer is armed; a mutation clears the
\* armed timer, arms a new one and starts no write; and the timer that fires
\* starts the one write of the burst, a snapshot of the records as all the
\* mutations of the burst left them.
C11_BurstCoalesced ==
    /\ [](options.autoSave => Cardinality(timers) <= 1)
    /\ [][(Mutated /\ options.autoSave)
            => (ArmsNewTimer /\ writes' = writes)]_vars
    /\ [][last'.op = "timer"
            => (/\ timers' = {}
                /\ ~pendingWrites'
                /\ writes' = Append(writes, Write(data', "timer")))]_vars

\* the first write of a store made by the constructor: two inserts, then the
\* timer fired once
C11_Witness ==
    /\ options.autoSave
    /\ last.op = "timer"
    /\ disk = NoFile
    /\ errors = 0
    /\ Len(writes) = 1
    /\ writes[1].by = "timer"
    /\ Len(writes[1].snap) >= 2
    /\ writes[1].snap = data

\* C12: with auto-save on, a mutation leaves the flag set and a timer armed,
\* also while a write is in flight, and from then on a write of the records
\* as they then are eventually starts.
C12_MutationLeadsToWrite ==
    /\ [][(Mutated /\ options.autoSave) => (pendingWrites' /\ timers' # {})]_vars
    /\ pendingWrites ~> (/\ last.op = "timer"
                         /\ ~pendingWrites
                         /\ writes # <<>>
                         /\ writes[Len(writes)].snap = data)

\* a write of a mutation that arrived while an older write was in flight
C12_Witness ==
    /\ last.op = "timer"
    /\ Len(writes) >= 2
    /\ writes[Len(writes)].snap = data
    /\ writes[1].snap # data

\* C13: with auto-save off no timer is armed, the flag is never set and the
\* only write is the initial save of initialize.
C13_NoAutoPersistence ==
    ~options.autoSave
    => (/\ timers = {}
        /\ saveTimer = 0
        /\ ~pendingWrites
        /\ Len(writes) <= 1
        /\ \A i \in 1..Len(writes) : writes[i].by = "initialize")

\* a store made by initialize with auto-save off, after a delete that removed
\* a record
C13_Witness ==
    /\ ~options.autoSave
    /\ disk # NoFile
    /\ last.op = "delete"
    /\ last.status = "ok"
    /\ last.count >= 1

\* C14: a timer-triggered write that fails is reported once and changes
\* nothing else: records, indexes, timer, flag and the handle stay as they
\* were, so the scheduler is idle unless a mutation came in meanwhile; and a
\* mutation after a failure arms a new timer, whose firing starts a write.
C14_FailedWriteNotRaised ==
    /\ [][\A i \in 1..Len(writes) :
             (last'.op = "failed" /\ writes[i].by = "timer" /\ WriteFail(i))
             => (/\ errors' = errors + 1
                 /\ ready' = ready
                 /\ data' = data
                 /\ indexes' = indexes
                 /\ Len(writes') = Len(writes) - 1
                 /\ UNCHANGED <<saveTimer, timers, pendingWrites>>)]_vars
    /\ [][(errors > 0 /\ Mutated /\ options.autoSave) => ArmsNewTimer]_vars
    /\ [][(errors > 0 /\ last'.op = "timer")
            => writes' = Append(writes, Write(data', "timer"))]_vars

\* after a failed write a mutation was made and its write has started
C14_Witness ==
    /\ errors >= 1
    /\ last.op = "timer"
    /\ writes # <<>>
    /\ writes[Len(writes)].snap = data
    /\ data # <<>>

\* C15: an assignment to a record that find or insert returned changes no
\* stored record: the records stored before are as they were, and a record
\* just inserted is stored as it was passed.
C15_ReturnedRecordsIndependent ==
    [][last'.op = "assign"
         => (/\ \A i \in 1..Len(data) : data'[i] = data[i]
             /\ Len(data') > Len(data)
                   => \E record \in RecordInputs :
                         data'[Len(data')] = NewRecord(record, randomUUID(uuids'))
            )]_vars

\* C16: on a store whose options object carries no validation the default
\* accept-all applies: insert accepts every record and does not fail.
C16_DefaultsApplied ==
    [][(last'.op = "insert" /\ options.validation = "none")
         => \A record \in RecordInputs :
               Insert(record)
               => (/\ last'.status = "ok"
                   /\ Len(data') = Len(data) + 1)]_vars

C18_NotInitialized ==
    [][(last'.op \in {"add", "dbFind", "modify", "remove"} /\ creating # "done")
         => (/\ last'.status = "NotInitialized"
             /\ UNCHANGED <<dbInstance, writes, disk, creating>>)]_vars

\* a call failed while createDB was awaiting the write of the new file
C18_Witness ==
    /\ last.op \in {"add", "dbFind", "modify", "remove"}
    /\ last.status = "NotInitialized"
    /\ creating = "writing"
    /\ writes # <<>>

\* C19: an update or delete that returns 0 matched no record, leaves the
\* records as they were and arms no timer; one that returns more matched a
\* record and, with auto-save on, has armed a new timer when it returns.
C19_SchedulesIffCounted ==
    [][(last'.op \in {"update", "delete"} /\ last'.status = "ok")
         => (/\ \A query \in SavedQueryInputs :
                   (Delete(query)
                      \/ \E changes \in SavedChangeInputs : Update(query, changes))
                   => ((last'.count = 0) <=> (Matching(data, query) = {}))
             /\ IF last'.count = 0 THEN data' = data /\ SchedUnchanged
                ELSE IF options.autoSave THEN ArmsNewTimer /\ writes' = writes
                ELSE SchedUnchanged)]_vars

\* an update that matched none of the records of a store with auto-save on
\* and no timer armed
C19_Witness ==
    /\ last.op = "update"
    /\ last.status = "ok"
    /\ last.count = 0
    /\ data # <<>>
    /\ options.autoSave
    /\ timers = {}
    /\ ~pendingWrites

\* an index exists for some field of the stored records and an equality
\* find on that field takes the index path
IndexInUse ==
    \E key \in DOMAIN indexes :
        \E i \in 1..Len(data) :
            UsesIndex(indexes, << <<key, Get(data[i], key)>> >>)

\* C20: the calls of insert, find, update and delete get the store to a
\* state where an index exists for a field and an equality find on that
\* field is answered from it (here: a caller that keeps calling all four
\* gets there).
C20_IndexReachable == <>IndexInUse

\* position p (from 0) is in the bucket of value V of the index map
InBucket(indexMap, V, p) ==
    /\ V \in DOMAIN indexMap
    /\ \E j \in 1..Len(indexMap[V]) : indexMap[V][j] = p

MixedQueryReturnsMatching ==
    \E r \in {find(data, indexes, MixedQuery)} :
        \A j \in 1..Len(r.recs) : matchesQuery(r.recs[j], MixedQuery) = "true"

\* C23: on a record whose age is absent or is no number, the literal, the
\* $eq and the $gt, $gte, $lt, $lte constraints with a number operand are
\* false: none is true and none fails.
C23_FalseOnMissingOrMistyped ==
    \A i \in 1..Len(data), query \in EvalQueryInputs :
        TypeOf(Get(data[i], "age")) # "number"
        => matchesQuery(data[i], query) = "false"

\* the parts of C23 that hold: no constraint fails, and on a record without
\* the field every constraint is false
EvaluatorNeverFails ==
    \A i \in 1..Len(data), query \in EvalQueryInputs :
        matchesQuery(data[i], query) # "throw"

MissingFieldIsFalse ==
    \A i \in 1..Len(data), query \in EvalQueryInputs :
        Get(data[i], "age") = Undef => matchesQuery(data[i], query) = "false"

\* no timer is armed and no write is in flight
Quiescent == timers = {} /\ writes = <<>>

\* C24: with auto-save on and no failed write, whenever no timer is armed and
\* no write is in flight after a write has completed, the file holds the
\* serialization of the records in memory.
C24_QuiescentDiskIsCurrent ==
    (options.autoSave /\ ready /\ errors = 0 /\ Quiescent /\ disk # NoFile)
    => disk = stringify(data)

====
